---- MODULE Spec2Model ----
(***************************************************************************)
(* Model of ompl/base/src/ProjectionEvaluator.cpp:                         *)
(*   - ProjectionEvaluator: setCellDimensions, checkCellDimensions,        *)
(*     inferCellDimensions, setup, computeCoordinates;                     *)
(*   - ProjectionMatrix: ComputeRandom, computeRandom.                     *)
(*                                                                         *)
(* Numbers.  A double is modelled as an integer number of quanta.  The     *)
(* machine epsilon is Epsilon quanta and 1.0 is One quanta, so that the    *)
(* model has a non-zero value below epsilon (1 quantum), epsilon itself,   *)
(* and values between epsilon and 1.0.  Rounding of the floating point     *)
(* operations is not modelled: the inputs are drawn from sets on which     *)
(* the divisions of the code are exact, or the quotient is kept as a       *)
(* fraction.                                                               *)
(***************************************************************************)
EXTENDS Integers, Sequences, FiniteSets, TLC

(* ------------------------------ bounds -------------------------------- *)

\* Largest getDimension() of a projection.
MaxDim == 2

\* magic::PROJECTION_EXTENTS_SAMPLES, the number of samples inference draws
\* (100 in the library; the loop is the same for any count >= 1).
PROJECTION_EXTENTS_SAMPLES == 2

\* Largest number of columns (from) of a projection matrix.
MaxFrom == 2

\* Largest number of rows (to) of a projection matrix.
MaxTo == 3

(* ------------------------- program constants -------------------------- *)

\* std::numeric_limits<double>::epsilon(), in quanta.
Epsilon == 2

\* The double 1.0, in quanta.
One == 8

\* std::numeric_limits<double>::infinity(), beyond every value of the model.
Infinity == 1000

\* magic::PROJECTION_DIMENSION_SPLITS.
PROJECTION_DIMENSION_SPLITS == 20

(* ----------------------------- input sets ------------------------------ *)

\* Entries a caller may pass to setCellDimensions: -1.0, 0.0, 1.0.
CellVals == {0 - One, 0, One}

\* Projected coordinates of a sampled state.  All are multiples of
\* PROJECTION_DIMENSION_SPLITS quanta, so (high - low) / SPLITS is exact;
\* the extents that occur are 0, 20, 40 and 60 quanta, i.e. widths of
\* 0, 1 (non-zero, below epsilon), 2 (epsilon) and 3 quanta.
SampleVals == {0 - 20, 0, 40}

\* Projections handed to computeCoordinates: -0.5, 0.0, 0.875, 1.0.
ProjVals == {0 - 4, 0, 7, 8}

\* The vectors setCellDimensions is called with: every length 0..MaxDim+1.
CellVectors == UNION {[1..n -> CellVals] : n \in 0..(MaxDim + 1)}

VARIABLES
    \* ProjectionEvaluator
    dimension,        \* getDimension() of the projection (fixed per evaluator)
    cellDimensions_,  \* the member cellDimensions_
    lastOp,           \* the member function called last
    err,              \* the Exception the last call threw, or "none"
    configured,       \* the last setCellDimensions or setup returned normally
    inferred,         \* cellDimensions_ was written by inferCellDimensions
    samplesDrawn,     \* sampleUniform calls made by the last call
    observed,         \* the projections of the samples the last call drew
    warnings,         \* axes the last call warned about, in order
    cellArg,          \* argument of the last setCellDimensions
    projection,       \* argument of the last computeCoordinates
    coord,            \* coordinates the last computeCoordinates returned
    indeterminate,    \* axes of coord computed from an indeterminate value
    crashed,          \* the process died on an out-of-bounds access
    \* setup() taken one loop iteration at a time
    pc, i, j, low, high,
    \* ProjectionMatrix
    from, to, scale, fill, garbage, useScale, matrix, mat, merr, mpc

evars == <<dimension, cellDimensions_, lastOp, err, configured, inferred,
           samplesDrawn, observed, warnings, cellArg, projection, coord,
           indeterminate, crashed>>

svars == <<pc, i, j, low, high>>

mvars == <<from, to, scale, fill, garbage, useScale, matrix, mat, merr, mpc>>

vars == <<evars, svars, mvars>>

(* --------------------------- ProjectionEvaluator ----------------------- *)

\* checkCellDimensions() without its first test.
CheckCellDimensions_NoDimensionTest(dim, cells) ==
    IF Len(cells) # dim THEN "CellDimensionMismatch" ELSE "none"

\* checkCellDimensions(): the exception it throws, "none" if it returns.
\* getDimension() is unsigned, so "<= 0" is "= 0".
CheckCellDimensions(dim, cells) ==
    IF dim <= 0 THEN "InvalidDimension"
    ELSE IF Len(cells) # dim THEN "CellDimensionMismatch"
    ELSE "none"

\* low[ax] after the first n samples: starts at +infinity, lowered by each
\* sample below it.
RECURSIVE LowAfter(_, _, _)
LowAfter(samples, ax, n) ==
    IF n = 0 THEN Infinity
    ELSE LET l == LowAfter(samples, ax, n - 1)
         IN  IF l > samples[n][ax] THEN samples[n][ax] ELSE l

\* high[ax] after the first n samples: starts at -infinity.
RECURSIVE HighAfter(_, _, _)
HighAfter(samples, ax, n) ==
    IF n = 0 THEN 0 - Infinity
    ELSE LET h == HighAfter(samples, ax, n - 1)
         IN  IF h < samples[n][ax] THEN samples[n][ax] ELSE h

\* (high[ax] - low[ax]) / magic::PROJECTION_DIMENSION_SPLITS
RawWidth(lo, hi) == (hi - lo) \div PROJECTION_DIMENSION_SPLITS

\* The test with "is 0" in place of "below epsilon".
IsDegenerate_ZeroOnly(w) == w <= 0

\* The test that replaces a width by 1.0 and warns.
IsDegenerate(w) == w < Epsilon

\* The width stored without the substitution of 1.0.
CellWidth_NoSubstitute(lo, hi) == RawWidth(lo, hi)

\* The value stored in cellDimensions_[ax].
CellWidth(lo, hi) ==
    IF IsDegenerate(RawWidth(lo, hi)) THEN One ELSE RawWidth(lo, hi)

\* The axes 1..n that get a warning, in the order of the loop.
RECURSIVE WarnedAxes(_, _, _)
WarnedAxes(lo, hi, n) ==
    IF n = 0 THEN <<>>
    ELSE LET before == WarnedAxes(lo, hi, n - 1)
         IN  IF IsDegenerate(RawWidth(lo[n], hi[n]))
             THEN Append(before, n) ELSE before

\* cellDimensions_ after inferCellDimensions(): resized to dim, one width
\* per axis.
InferredCells(dim, lo, hi) == [ax \in 1..dim |-> CellWidth(lo[ax], hi[ax])]

\* setup() inferring whether or not cell dimensions are set.
NeedsInference_Always(cells, dim) == dim > 0

\* The condition under which setup() calls inferCellDimensions().
NeedsInference(cells, dim) == Len(cells) = 0 /\ dim > 0

\* (int)(p / c) without floor(): rounds toward zero.
FloorDiv_Truncate(p, c) ==
    LET ap == IF p < 0 THEN 0 - p ELSE p
        ac == IF c < 0 THEN 0 - c ELSE c
        q  == ap \div ac
    IN  IF (p < 0) = (c < 0) THEN q ELSE 0 - q

\* floor(p / c) for c # 0 (the quotient of two doubles, rounded down).
FloorDiv(p, c) == IF c > 0 THEN p \div c ELSE (0 - p) \div (0 - c)

\* setCellDimensions that checks before it stores, keeping the old vector
\* when the check fails.
setCellDimensions_CheckFirst ==
    /\ ~crashed
    /\ \E v \in CellVectors :
        /\ cellArg' = v
        /\ err' = CheckCellDimensions(dimension, v)
        /\ cellDimensions_' = IF err' = "none" THEN v ELSE cellDimensions_
        /\ configured' = IF err' = "none" THEN TRUE ELSE configured
        /\ inferred' = IF err' = "none" THEN FALSE ELSE inferred
    /\ lastOp' = "setCellDimensions"
    /\ samplesDrawn' = 0 /\ observed' = <<>> /\ warnings' = <<>>
    /\ projection' = <<>> /\ coord' = <<>> /\ indeterminate' = {}
    /\ UNCHANGED <<dimension, crashed, svars, mvars>>

\* setCellDimensions(cellDimensions): store, then check.
setCellDimensions ==
    /\ ~crashed
    /\ \E v \in CellVectors :
        /\ cellDimensions_' = v
        /\ cellArg' = v
        /\ err' = CheckCellDimensions(dimension, v)
    /\ configured' = (err' = "none")
    /\ inferred' = FALSE
    /\ lastOp' = "setCellDimensions"
    /\ samplesDrawn' = 0 /\ observed' = <<>> /\ warnings' = <<>>
    /\ projection' = <<>> /\ coord' = <<>> /\ indeterminate' = {}
    /\ UNCHANGED <<dimension, crashed, svars, mvars>>

\* checkCellDimensions(), called by the user.
checkCellDimensions ==
    /\ ~crashed
    /\ err' = CheckCellDimensions(dimension, cellDimensions_)
    /\ lastOp' = "checkCellDimensions"
    /\ samplesDrawn' = 0 /\ observed' = <<>> /\ warnings' = <<>>
    /\ cellArg' = <<>> /\ projection' = <<>> /\ coord' = <<>>
    /\ indeterminate' = {}
    /\ UNCHANGED <<dimension, cellDimensions_, configured, inferred, crashed,
                   svars, mvars>>

\* setup(): infer the cell dimensions if there are none, then check.
setup ==
    /\ ~crashed
    /\ IF NeedsInference(cellDimensions_, dimension)
       THEN \E samples \in [1..PROJECTION_EXTENTS_SAMPLES ->
                               [1..dimension -> SampleVals]] :
              LET n  == PROJECTION_EXTENTS_SAMPLES
                  lo == [ax \in 1..dimension |-> LowAfter(samples, ax, n)]
                  hi == [ax \in 1..dimension |-> HighAfter(samples, ax, n)]
              IN  /\ cellDimensions_' = InferredCells(dimension, lo, hi)
                  /\ warnings' = WarnedAxes(lo, hi, dimension)
                  /\ observed' = samples
                  /\ samplesDrawn' = n
                  /\ inferred' = TRUE
       ELSE /\ samplesDrawn' = 0 /\ observed' = <<>> /\ warnings' = <<>>
            /\ UNCHANGED <<cellDimensions_, inferred>>
    /\ err' = CheckCellDimensions(dimension, cellDimensions_')
    /\ configured' = (err' = "none")
    /\ lastOp' = "setup"
    /\ cellArg' = <<>> /\ projection' = <<>> /\ coord' = <<>>
    /\ indeterminate' = {}
    /\ UNCHANGED <<dimension, crashed, svars, mvars>>

\* The axes on which computeCoordinates reads cellDimensions_[i] beyond the
\* end of the vector (undefined behaviour).
OutOfBounds(dim, cells) == {a \in 1..dim : a > Len(cells)}

\* The axes on which the quotient is not a finite number (division by a zero
\* width): the conversion of floor() of it to int is undefined.
NotFinite(dim, cells) == {a \in 1..dim : a <= Len(cells) /\ cells[a] = 0}

\* computeCoordinates(projection, coord): no check of the configuration.
\* An out-of-bounds read either kills the process or yields an indeterminate
\* value; it never throws.
computeCoordinates ==
    /\ ~crashed
    /\ \E p \in [1..dimension -> ProjVals] :
        LET oob == OutOfBounds(dimension, cellDimensions_)
            bad == oob \cup NotFinite(dimension, cellDimensions_)
        IN  /\ projection' = p
            /\ \E dies \in (IF oob = {} THEN {FALSE} ELSE BOOLEAN) :
                 /\ crashed' = dies
                 /\ IF dies
                    THEN coord' = <<>> /\ indeterminate' = {}
                    ELSE /\ coord' = [a \in 1..dimension |->
                                        IF a \in bad THEN 0
                                        ELSE FloorDiv(p[a], cellDimensions_[a])]
                         /\ indeterminate' = bad
    /\ err' = "none"
    /\ lastOp' = "computeCoordinates"
    /\ samplesDrawn' = 0 /\ observed' = <<>> /\ warnings' = <<>>
    /\ cellArg' = <<>>
    /\ UNCHANGED <<dimension, cellDimensions_, configured, inferred,
                   svars, mvars>>

\* The stepwise and the matrix variables while the evaluator is exercised.
StepIdle == pc = "idle" /\ i = 0 /\ j = 0 /\ low = <<>> /\ high = <<>>

MatrixIdle ==
    /\ from = 0 /\ to = 0 /\ scale = <<>> /\ fill = <<>> /\ garbage = <<>>
    /\ useScale = FALSE /\ matrix = <<>> /\ mat = <<>> /\ merr = "none"
    /\ mpc = "idle"

\* A newly constructed evaluator: no cell dimensions, nothing called yet.
EvalInit ==
    /\ dimension \in 0..MaxDim
    /\ cellDimensions_ = <<>>
    /\ lastOp = "none"
    /\ err = "none"
    /\ configured = FALSE
    /\ inferred = FALSE
    /\ samplesDrawn = 0 /\ observed = <<>> /\ warnings = <<>>
    /\ cellArg = <<>> /\ projection = <<>> /\ coord = <<>>
    /\ indeterminate = {}
    /\ crashed = FALSE

Init == EvalInit /\ StepIdle /\ MatrixIdle

Next ==
    \/ setCellDimensions
    \/ checkCellDimensions
    \/ setup
    \/ computeCoordinates

Spec == Init /\ [][Next]_vars

(* ------------------- claims about ProjectionEvaluator ------------------ *)

\* The error checkCellDimensions() raises for a dimension and a vector
\* length, written from the claim.
ExpectedError(dim, n) ==
    IF dim = 0 THEN "InvalidDimension"
    ELSE IF n # dim THEN "CellDimensionMismatch"
    ELSE "none"

\* C1: checkCellDimensions(), setCellDimensions(v) after storing v, and
\* setup() after any inference raise a configuration error if and only if
\* dimension() = 0 or the stored vector's length differs from dimension();
\* setCellDimensions(v) fails whenever Len(v) # dimension() and succeeds
\* whenever Len(v) = dimension() > 0.
C1_CheckRaisesIffMismatch ==
    lastOp \in {"checkCellDimensions", "setCellDimensions", "setup"} =>
        /\ (err # "none") <=>
              (dimension = 0 \/ Len(cellDimensions_) # dimension)
        /\ lastOp = "setCellDimensions" =>
              /\ cellDimensions_ = cellArg
              /\ Len(cellArg) # dimension => err # "none"
              /\ (Len(cellArg) = dimension /\ dimension > 0) => err = "none"

\* C1 witness: setCellDimensions(v) with a vector of the wrong length on a
\* projection of positive dimension raised the mismatch error.
C1_Witness ==
    /\ lastOp = "setCellDimensions"
    /\ dimension > 0
    /\ Len(cellArg) # dimension
    /\ err = "CellDimensionMismatch"

C3_UnconfiguredComputeFails ==
    (lastOp = "computeCoordinates" /\ ~configured) => err # "none"

\* C6 (as claimed): in every Configured state the stored vector has
\* dimension() entries and every entry is strictly positive.
C6_ConfiguredCellsPositive ==
    configured =>
        /\ Len(cellDimensions_) = dimension
        /\ \A a \in 1..Len(cellDimensions_) : cellDimensions_[a] > 0

\* C6 (amended): in every Configured state the stored vector has exactly
\* dimension() > 0 entries, and every entry written by inference is at least
\* machine epsilon, hence strictly positive; entries passed to
\* setCellDimensions are stored as given.
C6_ConfiguredLengthInferredPositive ==
    configured =>
        /\ dimension > 0
        /\ Len(cellDimensions_) = dimension
        /\ inferred =>
              \A a \in 1..dimension : cellDimensions_[a] >= Epsilon
        /\ lastOp = "setCellDimensions" => cellDimensions_ = cellArg

\* C6 witness: a Configured evaluator whose cell dimensions were inferred
\* from samples that made an axis degenerate.
C6_Witness ==
    /\ configured
    /\ inferred
    /\ lastOp = "setup"
    /\ Len(warnings) > 0

\* C7: on a Configured evaluator with positive cell widths computeCoordinates
\* returns dimension() integers, coordinate a being the greatest k with
\* k * cellDimensions_[a] <= projection[a] (rounding toward minus infinity),
\* and leaves the cell dimensions unchanged.
C7_CoordinatesAreFloor ==
    [][(/\ lastOp' = "computeCoordinates"
        /\ configured
        /\ \A a \in 1..Len(cellDimensions_) : cellDimensions_[a] > 0) =>
          /\ ~crashed' /\ err' = "none" /\ indeterminate' = {}
          /\ cellDimensions_' = cellDimensions_
          /\ DOMAIN coord' = 1..dimension
          /\ \A a \in 1..dimension :
                /\ coord'[a] * cellDimensions_[a] <= projection'[a]
                /\ projection'[a] < (coord'[a] + 1) * cellDimensions_[a]]_vars

\* C7 witness: with width 1.0, -0.5 was mapped to -1 and 0.875 to 0.
C7_Witness ==
    /\ lastOp = "computeCoordinates"
    /\ configured
    /\ dimension = 2
    /\ cellDimensions_ = <<One, One>>
    /\ projection = <<0 - 4, 7>>
    /\ coord = <<0 - 1, 0>>

\* The ax-th projected coordinates of the samples the last call drew.
ObservedOn(ax) == {observed[n][ax] : n \in DOMAIN observed}

SetMax(S) == CHOOSE x \in S : \A y \in S : y <= x

SetMin(S) == CHOOSE x \in S : \A y \in S : x <= y

TimesWarned(ax) == Cardinality({k \in DOMAIN warnings : warnings[k] = ax})

\* C8: inference sets the width of every axis ax to (max - min) /
\* splitFactor over all drawn samples, except that a width below machine
\* epsilon is replaced by 1.0 with exactly one warning for that axis; other
\* axes cause no warning, and the call does not fail.
C8_InferredWidths ==
    (lastOp = "setup" /\ samplesDrawn > 0) =>
        /\ err = "none"
        /\ samplesDrawn = PROJECTION_EXTENTS_SAMPLES
        /\ DOMAIN observed = 1..PROJECTION_EXTENTS_SAMPLES
        /\ DOMAIN cellDimensions_ = 1..dimension
        /\ \A ax \in 1..dimension :
              LET extent == SetMax(ObservedOn(ax)) - SetMin(ObservedOn(ax))
              IN  IF extent < Epsilon * PROJECTION_DIMENSION_SPLITS
                  THEN cellDimensions_[ax] = One /\ TimesWarned(ax) = 1
                  ELSE /\ cellDimensions_[ax] * PROJECTION_DIMENSION_SPLITS
                             = extent
                       /\ TimesWarned(ax) = 0

\* C8 witness: an inference with one axis on which all samples were equal
\* (width 1.0, warned) and one axis of extent 60 quanta (width 3 quanta).
C8_Witness ==
    /\ lastOp = "setup"
    /\ samplesDrawn > 0
    /\ dimension = 2
    /\ Cardinality(ObservedOn(1)) = 1
    /\ cellDimensions_ = <<One, 3>>
    /\ warnings = <<1>>

Resized_Skipped(cells, dim) == cells

\* std::vector<double>::resize(dim): the first dim entries kept, new entries
\* value-initialised to 0.0.
Resized(cells, dim) ==
    [a \in 1..dim |-> IF a <= Len(cells) THEN cells[a] ELSE 0]

\* The evaluator variables no step of setup() writes before its last.
StepFrame == UNCHANGED <<dimension, lastOp, err, configured, observed,
                         cellArg, projection, coord, indeterminate, crashed,
                         mvars>>

\* setup() is entered: line 185 decides whether to infer.
SetupEnter ==
    /\ pc = "setup"
    /\ IF NeedsInference(cellDimensions_, dimension)
       THEN /\ pc' = "sample"
            /\ low' = [a \in 1..dimension |-> Infinity]
            /\ high' = [a \in 1..dimension |-> 0 - Infinity]
       ELSE /\ pc' = "check"
            /\ UNCHANGED <<low, high>>
    /\ i' = 0 /\ j' = 0
    /\ samplesDrawn' = 0 /\ warnings' = <<>>
    /\ UNCHANGED <<cellDimensions_, inferred>>
    /\ StepFrame

\* One iteration of the sampling loop: draw a state, project it, update the
\* running minimum and maximum of every axis.
SampleStep ==
    /\ pc = "sample"
    /\ i < PROJECTION_EXTENTS_SAMPLES
    /\ \E proj \in [1..dimension -> SampleVals] :
        /\ low' = [a \in 1..dimension |->
                      IF low[a] > proj[a] THEN proj[a] ELSE low[a]]
        /\ high' = [a \in 1..dimension |->
                      IF high[a] < proj[a] THEN proj[a] ELSE high[a]]
    /\ i' = i + 1
    /\ samplesDrawn' = samplesDrawn + 1
    /\ UNCHANGED <<pc, j, cellDimensions_, inferred, warnings>>
    /\ StepFrame

\* The sampling loop ends; the state is freed and the vector resized.
SampleDone ==
    /\ pc = "sample"
    /\ ~(i < PROJECTION_EXTENTS_SAMPLES)
    /\ cellDimensions_' = Resized(cellDimensions_, dimension)
    /\ inferred' = TRUE
    /\ j' = 0
    /\ pc' = "width"
    /\ UNCHANGED <<i, low, high, samplesDrawn, warnings>>
    /\ StepFrame

\* One iteration of the loop over the axes: store the width of axis j,
\* replaced by 1.0 with a warning when it is below epsilon.  (Axes are
\* numbered from 1 here, from 0 in the code.)
WidthStep ==
    /\ pc = "width"
    /\ j < dimension
    /\ cellDimensions_' =
          [cellDimensions_ EXCEPT ![j + 1] = CellWidth(low[j + 1], high[j + 1])]
    /\ warnings' = IF IsDegenerate(RawWidth(low[j + 1], high[j + 1]))
                   THEN Append(warnings, j + 1) ELSE warnings
    /\ j' = j + 1
    /\ UNCHANGED <<pc, i, low, high, samplesDrawn, inferred>>
    /\ StepFrame

\* inferCellDimensions() returns.
WidthDone ==
    /\ pc = "width"
    /\ ~(j < dimension)
    /\ pc' = "check"
    /\ UNCHANGED <<i, j, low, high, samplesDrawn, warnings, cellDimensions_,
                   inferred>>
    /\ StepFrame

\* checkCellDimensions() at the end of setup(); setup() returns or throws.
CheckStep ==
    /\ pc = "check"
    /\ err' = CheckCellDimensions(dimension, cellDimensions_)
    /\ configured' = (err' = "none")
    /\ lastOp' = "setup"
    /\ pc' = "done"
    /\ UNCHANGED <<dimension, cellDimensions_, inferred, samplesDrawn,
                   observed, warnings, cellArg, projection, coord,
                   indeterminate, crashed, i, j, low, high, mvars>>

\* setup() is called on an evaluator that is new, or that holds a vector a
\* setCellDimensions call (successful or failed) left.
InitSetup ==
    /\ dimension \in 0..MaxDim
    /\ cellDimensions_ \in CellVectors
    /\ cellArg = cellDimensions_
    /\ lastOp = IF cellDimensions_ = <<>> THEN "none" ELSE "setCellDimensions"
    /\ err = IF cellDimensions_ = <<>> THEN "none"
             ELSE CheckCellDimensions(dimension, cellDimensions_)
    /\ configured = (cellDimensions_ # <<>> /\ err = "none")
    /\ inferred = FALSE
    /\ samplesDrawn = 0 /\ observed = <<>> /\ warnings = <<>>
    /\ projection = <<>> /\ coord = <<>> /\ indeterminate = {}
    /\ crashed = FALSE
    /\ pc = "setup" /\ i = 0 /\ j = 0 /\ low = <<>> /\ high = <<>>
    /\ MatrixIdle

NextSetup ==
    \/ SetupEnter
    \/ SampleStep
    \/ SampleDone
    \/ WidthStep
    \/ WidthDone
    \/ CheckStep

\* The code is sequential: a call that can take a step takes it.
SpecSetup == InitSetup /\ [][NextSetup]_vars /\ WF_vars(NextSetup)

\* C9: from an evaluator with an empty cell-dimension vector and
\* dimension() > 0, setup() terminates without error and leaves the
\* evaluator Configured with dimension() cell dimensions, whatever the
\* sampler returns.
C9_SetupTerminatesConfigured ==
    (pc = "setup" /\ Len(cellDimensions_) = 0 /\ dimension > 0)
        ~> (/\ pc = "done"
            /\ err = "none"
            /\ configured
            /\ Len(cellDimensions_) = dimension
            /\ samplesDrawn = PROJECTION_EXTENTS_SAMPLES)

\* C9 witness: setup() returned normally after an inference in which every
\* axis was degenerate.
C9_Witness ==
    /\ pc = "done"
    /\ dimension > 0
    /\ samplesDrawn = PROJECTION_EXTENTS_SAMPLES
    /\ Len(warnings) = dimension
    /\ configured
    /\ Len(cellDimensions_) = dimension

(* ---------------------------- ProjectionMatrix ------------------------- *)

\* Values rng.gaussian01() returns.
FillVals == {0 - 1, 0, 2}

\* Entries of a scale vector, in quanta: -1.0, a negative and a positive
\* non-zero value below epsilon, 0.0 and 1.0.
ScaleVals == {0 - One, 0 - 1, 0, 1, One}

\* A row of the matrix is kept as [v, unit, nan, div]: the row is v when
\* ~unit, and v / |v| when unit (only the direction of a row that was
\* normalized matters to what follows, so no square root is taken); nan says
\* that the normalization divided 0 by 0; div is the scale value the row was
\* divided by, in quanta (One when it was not scaled).
RawRow(v) == [v |-> v, unit |-> FALSE, nan |-> FALSE, div |-> One]

RECURSIVE DotUpTo(_, _, _)
DotUpTo(x, y, n) ==
    IF n = 0 THEN 0 ELSE DotUpTo(x, y, n - 1) + x[n] * y[n]

\* (row * prevRow).sum()
Dot(x, y) == DotUpTo(x, y, Len(x))

\* row -= (row * prevRow).sum() * prevRow, for the working row w = [v, nan].
\* Against a normalized prevRow u / |u| this is v - ((v.u) / (u.u)) u, kept
\* here multiplied by u.u > 0.
SubtractProjection(w, prevRow) ==
    IF w.nan \/ prevRow.nan
    THEN [v |-> [a \in DOMAIN w.v |-> 0], nan |-> TRUE]
    ELSE IF prevRow.unit
    THEN [v |-> [a \in DOMAIN w.v |->
                    Dot(prevRow.v, prevRow.v) * w.v[a]
                      - Dot(w.v, prevRow.v) * prevRow.v[a]],
          nan |-> FALSE]
    ELSE [v |-> [a \in DOMAIN w.v |->
                    w.v[a] - Dot(w.v, prevRow.v) * prevRow.v[a]],
          nan |-> FALSE]

\* The inner loop of the orthogonalization: the projections on the first n
\* rows subtracted in turn, each from the row the previous one left.
RECURSIVE SubtractAll(_, _, _)
SubtractAll(w, rows, n) ==
    IF n = 0 THEN w
    ELSE SubtractProjection(SubtractAll(w, rows, n - 1), rows[n])

\* row /= sqrt((row * row).sum())
Normalize(w) ==
    IF w.nan \/ Dot(w.v, w.v) = 0
    THEN [v |-> [a \in DOMAIN w.v |-> 0], unit |-> TRUE, nan |-> TRUE,
          div |-> One]
    ELSE [v |-> w.v, unit |-> TRUE, nan |-> FALSE, div |-> One]

\* The matrix after the loop of lines 59-70 has handled rows 2..n (1..n-1 in
\* the code); row 1 (0 in the code) is left as drawn.
RECURSIVE Orthogonalize(_, _)
Orthogonalize(draws, n) ==
    IF n = 1 THEN <<RawRow(draws[1])>>
    ELSE LET rows == Orthogonalize(draws, n - 1)
         IN  Append(rows,
                    Normalize(SubtractAll([v |-> draws[n], nan |-> FALSE],
                                          rows, n - 1)))

\* scale[r] as the scaling loop reads it for row r: beyond the end of the
\* vector the read yields whatever lies there.
ScaleAt(sc, junk, r) == IF r <= Len(sc) THEN sc[r] ELSE junk[r]

\* fabs(x) < std::numeric_limits<double>::epsilon()
BelowEpsilon(x) == (IF x < 0 THEN 0 - x ELSE x) < Epsilon

\* The scaling loop reaches a row beyond the end of the scale vector.
ReadsPastScale(f, t, sc) ==
    /\ Len(sc) = f
    /\ t > f
    /\ \A r \in 1..f : ~BelowEpsilon(sc[r])

\* ComputeRandom(from, to, scale): the exception thrown or the matrix
\* returned.  Every entry of row r is divided by scale[r].
ComputeRandom(f, t, sc, draws, junk) ==
    LET rows == Orthogonalize(draws, t)
    IN  IF Len(sc) = f
        THEN IF \E r \in 1..t : BelowEpsilon(ScaleAt(sc, junk, r))
             THEN [err |-> "DegenerateScale", rows |-> <<>>]
             ELSE [err |-> "none",
                   rows |-> [r \in 1..t |->
                               [rows[r] EXCEPT !.div = ScaleAt(sc, junk, r)]]]
        ELSE [err |-> "none", rows |-> rows]

MatrixFrame == UNCHANGED <<from, to, scale, fill, garbage, useScale, evars,
                           svars>>

\* computeRandom(from, to, scale): mat = ComputeRandom(from, to, scale).
\* A read past the end of scale may also end the process.
computeRandomScaled ==
    /\ mpc = "ready"
    /\ useScale
    /\ LET r == ComputeRandom(from, to, scale, fill, garbage)
       IN  \E dies \in (IF ReadsPastScale(from, to, scale)
                        THEN BOOLEAN ELSE {FALSE}) :
             /\ merr' = IF dies THEN "crash" ELSE r.err
             /\ mat' = IF dies \/ r.err # "none" THEN mat ELSE r.rows
    /\ matrix' = Orthogonalize(fill, to)
    /\ mpc' = "done"
    /\ MatrixFrame

\* computeRandom(from, to): mat = ComputeRandom(from, to), which passes an
\* empty scale vector.
computeRandom ==
    /\ mpc = "ready"
    /\ ~useScale
    /\ LET r == ComputeRandom(from, to, <<>>, fill, garbage)
       IN  /\ merr' = r.err
           /\ mat' = r.rows
    /\ matrix' = Orthogonalize(fill, to)
    /\ mpc' = "done"
    /\ MatrixFrame

\* A matrix stored by an earlier call, or none.
PreviousMats == {<<>>, <<RawRow(<<2>>)>>}

\* The arguments of one call and the values the generator will return.
InitMatrix ==
    /\ from \in 1..MaxFrom
    /\ to \in 1..MaxTo
    /\ fill \in [1..to -> [1..from -> FillVals]]
    /\ useScale \in BOOLEAN
    /\ scale \in IF useScale
                 THEN UNION {[1..n -> ScaleVals] : n \in 0..MaxFrom}
                 ELSE {<<>>}
    /\ garbage \in IF useScale /\ ReadsPastScale(from, to, scale)
                   THEN [(from + 1)..to -> ScaleVals]
                   ELSE {<<>>}
    /\ mat \in PreviousMats
    /\ matrix = <<>>
    /\ merr = "none"
    /\ mpc = "ready"
    /\ dimension = 0 /\ cellDimensions_ = <<>> /\ lastOp = "none"
    /\ err = "none" /\ configured = FALSE /\ inferred = FALSE
    /\ samplesDrawn = 0 /\ observed = <<>> /\ warnings = <<>>
    /\ cellArg = <<>> /\ projection = <<>> /\ coord = <<>>
    /\ indeterminate = {} /\ crashed = FALSE
    /\ StepIdle

NextMatrix ==
    \/ computeRandomScaled
    \/ computeRandom

SpecMatrix == InitMatrix /\ [][NextMatrix]_vars

(* --------------------- claims about ProjectionMatrix ------------------- *)

\* C4 (as claimed): when the scale vector has length from and any of its
\* entries, at any index, has magnitude below epsilon, ComputeRandom fails
\* with the configuration error and the stored matrix is left as it was.
C4_DegenerateScaleFails ==
    (/\ mpc = "done"
     /\ useScale
     /\ Len(scale) = from
     /\ \E k \in 1..from : BelowEpsilon(scale[k])) =>
        /\ merr = "DegenerateScale"
        /\ mat \in PreviousMats

\* Two stored rows are orthogonal: their dot product is 0 (and is a number).
Orthogonal(x, y) == ~x.nan /\ ~y.nan /\ Dot(x.v, y.v) = 0

\* C5 (as claimed): after the orthogonalization loop every row after the
\* first is orthogonal to every earlier row, the first row included.
C5_RowsOrthogonalToEarlier ==
    (mpc = "done" /\ to >= 2) =>
        \A r \in 2..to : \A q \in 1..(r - 1) :
            Orthogonal(matrix[r], matrix[q])

====
